---- MODULE Spec2Model ----
(***************************************************************************)
(* Hyperlace compiler core (src/Compiler.cpp): the macro engine, the       *)
(* parser, the semantic analyzer, the IR emitter and the NASM generator,  *)
(* as state machines.                                                      *)
(*                                                                         *)
(* Text is a sequence of one-character strings, so that the whitespace     *)
(* handling of MacroExpander::expand is part of the model.                 *)
(***************************************************************************)
EXTENDS Integers, Sequences, FiniteSets, TLC

VARIABLES
    \* ---- MacroExpander ----
    macros,       \* MacroExpander::macros, name -> replacement
    input,        \* text passed to the last MacroExpander call (expand only)
    expanded,     \* text the last MacroExpander call returned (expand only)
    macroError,   \* exception raised by the last MacroExpander call
    lastOp,       \* the MacroExpander method called last
    \* ---- SemanticAnalyzer ----
    declared,     \* SemanticAnalyzer::declared
    inFunction,   \* the file-scope flag inFunction
    stack,        \* the active analyze calls on function bodies
    semState,     \* "idle", "running", "done" or "failed"
    semError,     \* exception raised by analyze
    lastStmt,     \* the statement the walk visited last
    earlier,      \* targets of the assignments visited before lastStmt
    topDecl,      \* targets of the top-level assignments visited so far
    walked,       \* number of statements visited in this analyze call
    \* ---- Parser, IREmitter, main ----
    program,      \* the source program, as a list of statements
    tokens,       \* Parser::tokens
    current,      \* Parser::current (0-based, as in the code)
    statements,   \* the statement list parse() builds
    phase,        \* position of main in the pipeline
    parseError,   \* exception raised by the parser
    irOut,        \* contents of the IR file
    asmOut,       \* contents of the assembly file, line by line
    \* ---- runs of the compiler ----
    written,      \* the output files this run of main has written
    prevRun,      \* the run of main before this one: input, outcome, files
    runs          \* two analyses running side by side in one process

macroVars == <<macros, input, expanded, macroError, lastOp>>
semVars   == <<declared, inFunction, stack, semState, semError,
               lastStmt, earlier, topDecl, walked>>
mainVars  == <<program, tokens, current, statements, phase, parseError, irOut,
               asmOut>>
runVars   == <<written, prevRun, runs>>
vars      == <<macroVars, semVars, mainVars, runVars>>

-----------------------------------------------------------------------------
(* Bounds *)

MaxPieces == 3     \* pieces an input text is put together from
MaxStmts  == 4     \* statements visited by one analyze call
MaxDepth  == 2     \* nesting depth of function definitions
MaxAssign == 3     \* assignments in a source program
MaxSrc    == 2     \* statements in a source text
MaxBody   == 1     \* statements in the body of a for statement
MaxTree   == 2     \* statements at the top level of a statement tree
MaxTokens == 6     \* tokens before the end-of-file token of a token sequence
MaxArgs   == 2     \* arguments of a function call
MaxRun    == 2     \* statements and macro invocations of a compiled text
MaxTwo    == 2     \* statements of each of two programs analyzed side by side

-----------------------------------------------------------------------------
(* Text helpers *)

SP == " "
NL == "\n"

\* the characters operator>> of std::istringstream skips
Whitespace == {SP, NL}

RECURSIVE Flatten(_)
Flatten(ss) == IF ss = <<>> THEN <<>> ELSE Head(ss) \o Flatten(Tail(ss))

RECURSIVE SeqsUpTo(_, _)
SeqsUpTo(S, n) ==
    IF n = 0 THEN {<<>>}
    ELSE LET shorter == SeqsUpTo(S, n - 1)
         IN  shorter \cup {Append(s, e) : s \in shorter, e \in S}

\* macro names and replacement texts
INC   == <<"|", "i", "n", "c", "|">>
DEC   == <<"|", "d", "e", "c", "|">>
RESET == <<"|", "r", "e", "s", "e", "t", "|">>
TWO   == <<"|", "t", "w", "o", "|">>

IncBody   == <<"x", " ", "=", " ", "x", " ", "+", " ", "1", ";">>
DecBody   == <<"x", " ", "=", " ", "x", " ", "-", " ", "1", ";">>
ResetBody == <<"x", " ", "=", " ", "0", ";">>
TwoBody   == INC \o <<SP>> \o INC

\* the arguments the model passes to define
DefNames     == {INC, TWO}
Replacements == {IncBody, TwoBody}

\* the texts the model passes to expand
Pieces == {<<SP>>, <<NL>>, <<"x">>, INC, TWO}
Texts  == {Flatten(ps) : ps \in SeqsUpTo(Pieces, MaxPieces)}


-----------------------------------------------------------------------------
(* MacroExpander *)

\* operator>> : skip whitespace from position i on
RECURSIVE SkipWs(_, _)
SkipWs(s, i) ==
    IF i <= Len(s) /\ s[i] \in Whitespace THEN SkipWs(s, i + 1) ELSE i

\* operator>> : the word starting at position i ends before WordEnd
RECURSIVE WordEnd(_, _)
WordEnd(s, i) ==
    IF i <= Len(s) /\ s[i] \notin Whitespace THEN WordEnd(s, i + 1) ELSE i

\* the loop of expand: `while (stream >> word) result += ... + " "`
RECURSIVE expandLoop(_, _, _, _)
expandLoop(m, s, i, result) ==
    LET b == SkipWs(s, i)
        e == WordEnd(s, b)
        word == SubSeq(s, b, e - 1)
    IN  IF b > Len(s) THEN result
        ELSE IF word \in DOMAIN m
             THEN expandLoop(m, s, e, result \o m[word] \o <<SP>>)
             ELSE expandLoop(m, s, e, result \o word \o <<SP>>)

\* a faulty loop: an invocation that directly follows a copy of the same
\* body is dropped
RECURSIVE expandLoopOnce(_, _, _, _, _)
expandLoopOnce(m, s, i, result, prev) ==
    LET b == SkipWs(s, i)
        e == WordEnd(s, b)
        word == SubSeq(s, b, e - 1)
    IN  IF b > Len(s) THEN result
        ELSE IF word \in DOMAIN m
             THEN IF word = prev
                  THEN expandLoopOnce(m, s, e, result, word)
                  ELSE expandLoopOnce(m, s, e, result \o m[word] \o <<SP>>, word)
             ELSE expandLoopOnce(m, s, e, result \o word \o <<SP>>, word)

expandOnce(m, s) == expandLoopOnce(m, s, 1, <<>>, <<>>)

\* MacroExpander::expand
expand(m, s) == expandLoop(m, s, 1, <<>>)

\* MacroExpander::define : macros[name] = replacement
define(m, name, replacement) ==
    [n \in DOMAIN m \cup {name} |-> IF n = name THEN replacement ELSE m[n]]

\* MacroExpander::loadDefaults
loadDefaults(m) ==
    define(define(define(m, INC, IncBody), DEC, DecBody), RESET, ResetBody)

EmptyTable == [n \in {} |-> <<>>]

\* define, loadDefaults and expand have no throw statement
NoMacroError == [kind |-> "none", name |-> <<>>]

Define(name, replacement) ==
    /\ macros' = define(macros, name, replacement)
    /\ macroError' = NoMacroError
    /\ lastOp' = "define"
    /\ input' = <<>>
    /\ expanded' = <<>>
    /\ UNCHANGED <<semVars, mainVars, runVars>>

LoadDefaults ==
    /\ macros' = loadDefaults(macros)
    /\ macroError' = NoMacroError
    /\ lastOp' = "loadDefaults"
    /\ input' = <<>>
    /\ expanded' = <<>>
    /\ UNCHANGED <<semVars, mainVars, runVars>>

Expand(text) ==
    /\ input' = text
    /\ expanded' = expand(macros, text)
    /\ macroError' = NoMacroError
    /\ lastOp' = "expand"
    /\ UNCHANGED macros
    /\ UNCHANGED <<semVars, mainVars, runVars>>

MacroInit ==
    /\ macros = EmptyTable
    /\ input = <<>>
    /\ expanded = <<>>
    /\ macroError = NoMacroError
    /\ lastOp = "init"

-----------------------------------------------------------------------------
(* Properties of the macro engine *)

\* the whitespace-delimited words of a text, read character by character
RECURSIVE WordsFrom(_, _, _)
WordsFrom(s, word, acc) ==
    IF s = <<>>
    THEN IF word = <<>> THEN acc ELSE Append(acc, word)
    ELSE IF Head(s) \in Whitespace
         THEN WordsFrom(Tail(s), <<>>,
                        IF word = <<>> THEN acc ELSE Append(acc, word))
         ELSE WordsFrom(Tail(s), Append(word, Head(s)), acc)

Words(s) == WordsFrom(s, <<>>, <<>>)

WordSet(s) == {Words(s)[i] : i \in 1..Len(Words(s))}

\* the invocations of a text: its words that are names of the table
Invocations(m, s) == WordSet(s) \cap DOMAIN m

\* name occurs in text as a run of characters
Occurs(name, s) ==
    \E i \in 1..(Len(s) - Len(name) + 1) :
        SubSeq(s, i, i + Len(name) - 1) = name

\* a word written in the invocation syntax |name|
IsInvocation(w) == Len(w) >= 2 /\ w[1] = "|" /\ w[Len(w)] = "|"

\* the macros invoked by the bodies of the macros in ns
CalledBy(m, ns) == UNION {Invocations(m, m[n]) : n \in ns}

RECURSIVE Closure(_, _, _)
Closure(m, ns, k) ==
    IF k = 0 THEN ns ELSE Closure(m, ns \cup CalledBy(m, ns), k - 1)

\* the macros a macro invokes, directly or through other macros
Reaches(m, n) == Closure(m, CalledBy(m, {n}), Cardinality(DOMAIN m))

Cyclic(m, n) == n \in Reaches(m, n)

\* the macros whose expansion the text asks for and that cannot be expanded:
\* undefined ones, and defined ones on or leading to a cycle
Offending(m, s) ==
    {w \in WordSet(s) : IsInvocation(w) /\ w \notin DOMAIN m}
    \cup {w \in Invocations(m, s) :
             \E n \in {w} \cup Reaches(m, w) : Cyclic(m, n)}
    \cup {w \in UNION {WordSet(m[n]) :
                         n \in UNION {{v} \cup Reaches(m, v) : v \in Invocations(m, s)}} :
             IsInvocation(w) /\ w \notin DOMAIN m}

\* C4: expanding a text without any macro invocation returns the text
\* unchanged, character for character.
C4_NoInvocationUnchanged ==
    (lastOp = "expand" /\ Invocations(macros, input) = {})
        => expanded = input

\* C5: macro expansion is idempotent: expanding the expanded text again
\* returns the expanded text.
C5_ExpandIdempotent ==
    lastOp = "expand" => expand(macros, expanded) = expanded

\* what a word of the input becomes: the body when it is a macro name
Substituted(m, w) == IF w \in DOMAIN m THEN m[w] ELSE w

\* C6: every invocation is replaced by a full copy of the body; the copies
\* and the other words stand in the order of the words of the input, so n
\* invocations of a macro give n copies of its body.
C6_EveryInvocationReplaced ==
    lastOp = "expand" =>
        LET ws == Words(input)
        IN  expanded =
              Flatten([i \in 1..Len(ws) |-> Substituted(macros, ws[i]) \o <<SP>>])

\* C6 witness: |inc| invoked twice has given two copies of x = x + 1;
C6_Witness ==
    /\ lastOp = "expand"
    /\ INC \in DOMAIN macros
    /\ macros[INC] = IncBody
    /\ Words(input) = <<INC, INC>>
    /\ expanded = IncBody \o <<SP>> \o IncBody \o <<SP>>

\* C7: the expanded text contains no invocation of a defined macro, nested
\* or adjacent to other characters.
C7_NoResidualInvocation ==
    lastOp = "expand" =>
        \A n \in DOMAIN macros : ~Occurs(n, expanded)

\* C8: expanding a text that invokes an undefined or a cyclic macro fails
\* with a macro-expansion error naming the offending macro.
C8_UnresolvedOrCyclicFails ==
    (lastOp = "expand" /\ Offending(macros, input) # {})
        => /\ macroError.kind = "MacroExpansionError"
           /\ macroError.name \in Offending(macros, input)

\* C9: defining a name that is already in the table is rejected with a
\* macro-redefinition error and the existing definition stays as it is.
C9_NoSilentRedefinition ==
    [][\A n \in DOMAIN macros :
          /\ n \in DOMAIN macros' /\ macros'[n] = macros[n]
          /\ (lastOp' = "define" /\ macros' = macros)
                => macroError'.kind = "MacroRedefinitionError"]_vars

-----------------------------------------------------------------------------
(* AST *)

Names == {"x", "y"}

NoExpr     == [kind |-> "none", name |-> "", left |-> "", right |-> ""]
NumberExpr(v)     == [kind |-> "num", name |-> v, left |-> "", right |-> ""]
IdentifierExpr(n) == [kind |-> "id", name |-> n, left |-> "", right |-> ""]

\* the values an Assignment node of the analyzed tree may hold
Values == {NumberExpr("5")} \cup {IdentifierExpr(n) : n \in Names}

NoStmt == [kind |-> "none", name |-> "", value |-> NoExpr]
Assignment(n, v) == [kind |-> "assign", name |-> n, value |-> v]

NoError == [kind |-> "none", name |-> ""]

-----------------------------------------------------------------------------
(* SemanticAnalyzer *)

\* SemanticAnalyzer::analyzeAssignment : the new declared set and the
\* exception raised, if any
analyzeAssignment(decl, stmt) ==
    LET d == decl \cup {stmt.name}
    IN  [declared |-> d,
         error |-> IF stmt.value.kind = "id" /\ stmt.value.name \notin d
                   THEN [kind |-> "UndeclaredVariable", name |-> stmt.value.name]
                   ELSE NoError]

\* the statement kinds analyze has no branch for
IgnoredKinds == {"if", "while", "for"}

ReturnStatement == [kind |-> "return", name |-> "", value |-> NoExpr]
FunctionDef(n, body) ==
    [kind |-> "func", name |-> n, value |-> NoExpr, body |-> body]
IfStatement(cond, thenBranch, elseBranch) ==
    [kind |-> "if", name |-> "", value |-> cond, thenBranch |-> thenBranch,
     elseBranch |-> elseBranch]
StructDef(n, fields) ==
    [kind |-> "struct", name |-> n, value |-> NoExpr, fields |-> fields]
StructInit(structName) ==
    [kind |-> "structInit", name |-> structName, left |-> "", right |-> ""]
Ignored(k)      == [kind |-> k, name |-> "", value |-> NoExpr]

\* the assignment targets visited before the statement visited now
Shift == IF lastStmt.kind = "assign" THEN earlier \cup {lastStmt.name}
         ELSE earlier

\* analyzer.analyze(statements) is called: declared.clear()
AnalyzeCall ==
    /\ semState \in {"idle", "done"}
    /\ semState' = "running"
    /\ declared' = {}
    /\ stack' = <<>>
    /\ semError' = NoError
    /\ lastStmt' = NoStmt
    /\ earlier' = {}
    /\ topDecl' = {}
    /\ walked' = 0
    /\ UNCHANGED inFunction
    /\ UNCHANGED <<macroVars, mainVars, runVars>>

\* the loop reaches an Assignment: analyzeAssignment(assign)
StmtAssignment(n, v) ==
    /\ semState = "running"
    /\ walked < MaxStmts
    /\ LET r == analyzeAssignment(declared, Assignment(n, v))
       IN  /\ declared' = r.declared
           /\ semError' = r.error
           /\ semState' = IF r.error = NoError THEN "running" ELSE "failed"
    /\ lastStmt' = Assignment(n, v)
    /\ earlier' = Shift
    /\ topDecl' = IF stack = <<>> THEN topDecl \cup {n} ELSE topDecl
    /\ walked' = walked + 1
    /\ UNCHANGED <<inFunction, stack>>
    /\ UNCHANGED <<macroVars, mainVars, runVars>>

\* the loop reaches a FunctionDef: inFunction = true; analyze(fn->body),
\* which starts with declared.clear()
StmtFunctionDef ==
    /\ semState = "running"
    /\ walked < MaxStmts
    /\ Len(stack) < MaxDepth
    /\ stack' = Append(stack, [saved |-> inFunction])
    /\ inFunction' = TRUE
    /\ declared' = {}
    /\ lastStmt' = FunctionDef("", <<>>)
    /\ earlier' = Shift
    /\ walked' = walked + 1
    /\ UNCHANGED <<semState, semError, topDecl>>
    /\ UNCHANGED <<macroVars, mainVars, runVars>>

\* analyze(fn->body) returns: inFunction = false
BodyEnd ==
    /\ semState = "running"
    /\ stack # <<>>
    /\ stack' = SubSeq(stack, 1, Len(stack) - 1)
    /\ inFunction' = FALSE
    /\ UNCHANGED <<declared, semState, semError, lastStmt, earlier, topDecl, walked>>
    /\ UNCHANGED <<macroVars, mainVars, runVars>>

\* the loop reaches a ReturnStatement
StmtReturn ==
    /\ semState = "running"
    /\ walked < MaxStmts
    /\ IF ~inFunction
       THEN /\ semState' = "failed"
            /\ semError' = [kind |-> "ReturnOutsideFunction", name |-> ""]
       ELSE UNCHANGED <<semState, semError>>
    /\ lastStmt' = ReturnStatement
    /\ earlier' = Shift
    /\ walked' = walked + 1
    /\ UNCHANGED <<declared, inFunction, stack, topDecl>>
    /\ UNCHANGED <<macroVars, mainVars, runVars>>

\* the loop reaches a statement of another kind: no branch is taken
StmtIgnored(k) ==
    /\ semState = "running"
    /\ walked < MaxStmts
    /\ lastStmt' = Ignored(k)
    /\ earlier' = Shift
    /\ walked' = walked + 1
    /\ UNCHANGED <<declared, inFunction, stack, semState, semError, topDecl>>
    /\ UNCHANGED <<macroVars, mainVars, runVars>>

\* the loop over the top-level statements ends: analyze returns
AnalyzeReturn ==
    /\ semState = "running"
    /\ stack = <<>>
    /\ semState' = "done"
    /\ UNCHANGED <<declared, inFunction, stack, semError, lastStmt, earlier,
                   topDecl, walked>>
    /\ UNCHANGED <<macroVars, mainVars, runVars>>

SemInit ==
    /\ declared = {}
    /\ inFunction = FALSE
    /\ stack = <<>>
    /\ semState = "idle"
    /\ semError = NoError
    /\ lastStmt = NoStmt
    /\ earlier = {}
    /\ topDecl = {}
    /\ walked = 0

-----------------------------------------------------------------------------
(* Lexer: its class is not part of Compiler.cpp; only main's call of       *)
(* tokenize() is.  Source programs are lists of assignments.               *)

BinaryExpr(op, l, r) == [kind |-> "bin", name |-> op, left |-> l, right |-> r]

\* the right-hand sides of the source programs
SrcValues == Values \cup {BinaryExpr("+", "x", "y")}
SrcStmts  == {Assignment(n, v) : n \in Names, v \in SrcValues}
Programs  == SeqsUpTo(SrcStmts, MaxAssign)

Token(t, lx, ln, col) ==
    [type |-> t, lexeme |-> lx, line |-> ln, column |-> col]

TokenTypes == {"Identifier", "Number", "String", "Keyword", "Symbol", "Comment",
               "Assign", "ImmutableAssign", "EndOfLine", "EndOfFile"}

\* the tokens of an expression and of a statement, not yet placed
ExprTokens(e) ==
    IF e.kind = "num" THEN <<Token("Number", e.name, 1, 1)>>
    ELSE IF e.kind = "id" THEN <<Token("Identifier", e.name, 1, 1)>>
    ELSE <<Token("Identifier", e.left, 1, 1), Token("Symbol", e.name, 1, 1),
           Token("Identifier", e.right, 1, 1)>>

StmtTokens(st) ==
    <<Token("Identifier", st.name, 1, 1), Token("Assign", "=", 1, 1)>>
        \o ExprTokens(st.value) \o <<Token("EndOfLine", ";", 1, 1)>>

\* the 1-based column the k-th lexeme starts at when the text is one line
\* whose lexemes stand one space apart
RECURSIVE Column(_, _)
Column(toks, k) ==
    IF k = 1 THEN 1
    ELSE Column(toks, k - 1) + Len(toks[k - 1].lexeme) + 1

Place(toks) ==
    [k \in 1..Len(toks) |->
        Token(toks[k].type, toks[k].lexeme, 1, Column(toks, k))]

\* the token sequence of a source program, ending in one end-of-file token
tokenize(p) ==
    Place(Flatten([i \in 1..Len(p) |-> StmtTokens(p[i])])
              \o <<Token("EndOfFile", "", 1, 1)>>)

\* Source text as a list of statements, each a list of lexemes.
Keywords      == {"if", "else", "while", "for", "Start", "Init", "Return"}
NumberLexemes == {"2", "3", "4", "5"}
SymbolLexemes == {"+", "-", "*", "/", "%", "(", ")", "{", "}", ","}

\* the token type of a lexeme; a keyword is never an identifier
TypeOf(lx) ==
    IF lx \in Keywords THEN "Keyword"
    ELSE IF lx \in NumberLexemes THEN "Number"
    ELSE IF lx = "=" THEN "Assign"
    ELSE IF lx = ";" THEN "EndOfLine"
    ELSE IF lx = "+=" THEN "PlusEq"
    ELSE IF lx \in SymbolLexemes THEN "Symbol"
    ELSE "Identifier"

\* the token sequence of a source text
tokenizeText(src) ==
    LET lexemes == Flatten(src)
    IN  Place([k \in 1..Len(lexemes) |->
                  Token(TypeOf(lexemes[k]), lexemes[k], 1, 1)]
              \o <<Token("EndOfFile", "", 1, 1)>>)

-----------------------------------------------------------------------------
(* Parser.  current counts from 0 as in the code; tokens[k] of the code is *)
(* toks[k + 1] here.                                                       *)

peek(toks, cur) == toks[cur + 1]

isAtEnd(toks, cur) == peek(toks, cur).type = "EndOfFile"

\* Parser::advance : the cursor after the call
advance(toks, cur) == IF ~isAtEnd(toks, cur) THEN cur + 1 ELSE cur

\* Parser::previous
previous(toks, cur) == toks[cur]

\* Parser::match : whether the token matched, and the cursor after the call
match(toks, cur, type) ==
    IF peek(toks, cur).type = type
    THEN [matched |-> TRUE, current |-> advance(toks, cur)]
    ELSE [matched |-> FALSE, current |-> cur]

\* Parser::parseExpression
parseExpression(toks, cur) ==
    LET num == match(toks, cur, "Number")
        id  == match(toks, cur, "Identifier")
    IN  IF num.matched
        THEN [error |-> "none", current |-> num.current,
              node |-> NumberExpr(previous(toks, num.current).lexeme)]
        ELSE IF id.matched
        THEN [error |-> "none", current |-> id.current,
              node |-> IdentifierExpr(previous(toks, id.current).lexeme)]
        ELSE [error |-> "Invalid expression", current |-> cur, node |-> NoExpr]

\* parseAssignment stepping over the token after the expression without
\* looking at it
parseAssignmentSkipping(toks, cur) ==
    LET name == peek(toks, cur).lexeme
        c1   == advance(toks, cur)
        c2   == match(toks, c1, "Assign").current
        expr == parseExpression(toks, c2)
    IN  IF expr.error # "none"
        THEN [error |-> expr.error, current |-> expr.current, node |-> NoStmt]
        ELSE [error |-> "none", current |-> expr.current + 1,
              node |-> Assignment(name, expr.node)]

\* Parser::parseAssignment
parseAssignment(toks, cur) ==
    LET name == peek(toks, cur).lexeme
        c1   == advance(toks, cur)
        c2   == match(toks, c1, "Assign").current
        expr == parseExpression(toks, c2)
    IN  IF expr.error # "none"
        THEN [error |-> expr.error, current |-> expr.current, node |-> NoStmt]
        ELSE [error |-> "none",
              current |-> match(toks, expr.current, "EndOfLine").current,
              node |-> Assignment(name, expr.node)]

\* what the read of tokens[current + 1] in parseStatement can give: the type
\* of that token, or anything when the read is past the end of the vector
Lookahead(toks, cur) ==
    IF cur + 2 <= Len(toks) THEN {toks[cur + 2].type} ELSE TokenTypes

\* parseStatement returning without an error, and without a step, where it
\* finds no assignment
parseStatementSilent(toks, cur, next) ==
    IF peek(toks, cur).type = "Identifier" /\ next = "Assign"
    THEN parseAssignment(toks, cur)
    ELSE [error |-> "none", current |-> cur, node |-> NoStmt]

\* Parser::parseStatement, next being the type read at tokens[current + 1]
parseStatement(toks, cur, next) ==
    IF peek(toks, cur).type = "Identifier" /\ next = "Assign"
    THEN parseAssignment(toks, cur)
    ELSE [error |-> "Unexpected statement", current |-> cur, node |-> NoStmt]

ForLoop(init, cond, incr, body) ==
    [kind |-> "for", name |-> "", value |-> cond, initializer |-> init,
     increment |-> incr, body |-> body]

\* check(c) and expect(c), which parseFor calls and no source file defines:
\* whether the token at the cursor is c, and the step over it or the error
check(toks, cur, c) == peek(toks, cur).lexeme = c

expect(toks, cur, c) ==
    IF check(toks, cur, c)
    THEN [error |-> "none", current |-> advance(toks, cur)]
    ELSE [error |-> "Expected " \o c, current |-> cur]

\* parseStatement() called where the token vector ends in an end-of-file
\* token, so that tokens[current + 1] is read inside the vector
statementAt(toks, cur) ==
    parseStatement(toks, cur,
                   IF cur + 2 <= Len(toks) THEN toks[cur + 2].type
                   ELSE "EndOfFile")

\* while (!check('}')) body.push_back(parseStatement());
RECURSIVE parseBody(_, _, _)
parseBody(toks, cur, body) ==
    IF check(toks, cur, "}")
    THEN [error |-> "none", current |-> cur, nodes |-> body]
    ELSE LET r == statementAt(toks, cur)
         IN  IF r.error # "none"
             THEN [error |-> r.error, current |-> r.current, nodes |-> body]
             ELSE parseBody(toks, r.current, Append(body, r.node))

\* parseFor, called with the cursor on the for keyword
parseFor(toks, cur) ==
    LET open  == expect(toks, advance(toks, cur), "(")
        init  == statementAt(toks, open.current)
        cond  == parseExpression(toks, init.current)
        semi  == expect(toks, cond.current, ";")
        incr  == statementAt(toks, semi.current)
        close == expect(toks, incr.current, ")")
        brace == expect(toks, close.current, "{")
        body  == parseBody(toks, brace.current, <<>>)
        end   == expect(toks, body.current, "}")
        Fail(r) == [error |-> r.error, current |-> r.current, node |-> NoStmt]
    IN  IF open.error # "none" THEN Fail(open)
        ELSE IF init.error # "none" THEN Fail(init)
        ELSE IF cond.error # "none" THEN Fail(cond)
        ELSE IF semi.error # "none" THEN Fail(semi)
        ELSE IF incr.error # "none" THEN Fail(incr)
        ELSE IF close.error # "none" THEN Fail(close)
        ELSE IF brace.error # "none" THEN Fail(brace)
        ELSE IF body.error # "none" THEN Fail(body)
        ELSE IF end.error # "none" THEN Fail(end)
        ELSE [error |-> "none", current |-> end.current,
              node |-> ForLoop(init.node, cond.node, incr.node, body.nodes)]

\* what an exception of the parser carries: std::runtime_error(message)
\* has the message and neither tokens nor a position
ParseErrorOf(message) ==
    [message |-> message, expected |-> "", found |-> "", line |-> 0,
     column |-> 0]

-----------------------------------------------------------------------------
(* SemanticAnalyzer::analyze and IREmitter::emit on the list parse() built *)

\* the loop of analyze over a list of statements, inFn being the flag
\* inFunction: an Assignment is analyzed, a FunctionDef has its body
\* analyzed by a nested analyze call between inFunction = true and
\* inFunction = false, a ReturnStatement is checked against the flag
RECURSIVE analyzeLoop(_, _, _)
analyzeLoop(decl, inFn, stmts) ==
    IF stmts = <<>>
    THEN [declared |-> decl, inFunction |-> inFn, error |-> NoError]
    ELSE LET st == Head(stmts)
         IN  IF st.kind = "assign"
             THEN LET r == analyzeAssignment(decl, st)
                  IN  IF r.error # NoError
                      THEN [declared |-> r.declared, inFunction |-> inFn,
                            error |-> r.error]
                      ELSE analyzeLoop(r.declared, inFn, Tail(stmts))
             ELSE IF st.kind = "func"
             THEN LET r == analyzeLoop({}, TRUE, st.body)
                  IN  IF r.error # NoError THEN r
                      ELSE analyzeLoop(r.declared, FALSE, Tail(stmts))
             ELSE IF st.kind = "return" /\ ~inFn
             THEN [declared |-> decl, inFunction |-> inFn,
                   error |-> [kind |-> "ReturnOutsideFunction", name |-> ""]]
             ELSE analyzeLoop(decl, inFn, Tail(stmts))

\* SemanticAnalyzer::analyze : declared.clear(), then the loop
analyze(inFn, stmts) == analyzeLoop({}, inFn, stmts)

\* IREmitter::emit : the text written to the IR file
\* the instructions one turn of the loop of IREmitter::emit writes for a
\* statement, each with its opcode and its text
instructions(st) ==
    IF st.kind # "assign" THEN <<>>
    ELSE <<[op |-> "STORE",
            text |-> "STORE " \o st.name \o " <- " \o
                     (IF st.value.kind = "num"
                      THEN "NUM(" \o st.value.name \o ")\n"
                      ELSE IF st.value.kind = "id"
                      THEN "REF(" \o st.value.name \o ")\n"
                      ELSE "")]>>

RECURSIVE Text(_)
Text(ins) == IF ins = <<>> THEN "" ELSE Head(ins).text \o Text(Tail(ins))

RECURSIVE emit(_)
emit(stmts) ==
    IF stmts = <<>> THEN ""
    ELSE Text(instructions(Head(stmts))) \o emit(Tail(stmts))

\* NASMGenerator::generate, first loop: one definition per Assignment
RECURSIVE dataLines(_)
dataLines(stmts) ==
    IF stmts = <<>> THEN <<>>
    ELSE (IF Head(stmts).kind = "assign"
          THEN <<Head(stmts).name \o " dq 0">>
          ELSE <<>>) \o dataLines(Tail(stmts))

\* NASMGenerator::generate, second loop, with the branch for a
\* ReturnStatement (jmp .return) in it
RECURSIVE textLines(_)
textLines(stmts) ==
    IF stmts = <<>> THEN <<>>
    ELSE LET st == Head(stmts)
             code == IF st.kind = "assign" /\ st.value.kind = "num"
                     THEN <<"    mov rax, " \o st.value.name,
                            "    mov [" \o st.name \o "], rax">>
                     ELSE IF st.kind = "assign" /\ st.value.kind = "id"
                     THEN <<"    mov rax, [" \o st.value.name \o "]",
                            "    mov [" \o st.name \o "], rax">>
                     ELSE IF st.kind = "return"
                     THEN <<"    jmp .return">>
                     ELSE <<>>
         IN  code \o textLines(Tail(stmts))

ExitSequence == <<"    mov rax, 60", "    xor rdi, rdi", "    syscall">>

\* generate with the exit sequence written before the code of the statements
generateExitFirst(stmts) ==
    <<"section .data">> \o dataLines(stmts)
        \o <<"", "section .text", " global _start", "_start:">>
        \o ExitSequence \o textLines(stmts)

\* NASMGenerator::generate : the lines written to the assembly file
generate(stmts) ==
    <<"section .data">> \o dataLines(stmts)
        \o <<"", "section .text", " global _start", "_start:">>
        \o textLines(stmts) \o ExitSequence

-----------------------------------------------------------------------------
(* main *)

\* std::vector<Token> tokens = lexer.tokenize(); Parser parser(tokens);
LexerTokenize(p) ==
    /\ phase = "idle"
    /\ program' = p
    /\ tokens' = tokenize(p)
    /\ current' = 0
    /\ statements' = <<>>
    /\ phase' = "parsing"
    /\ UNCHANGED <<parseError, irOut, asmOut>>
    /\ UNCHANGED <<macroVars, semVars, runVars>>

\* one turn of the loop of Parser::parse
ParseStatement ==
    /\ phase = "parsing"
    /\ ~isAtEnd(tokens, current)
    /\ \E next \in Lookahead(tokens, current) :
         LET r == parseStatement(tokens, current, next)
         IN  /\ current' = r.current
             /\ parseError' = r.error
             /\ IF r.error = "none"
                THEN /\ statements' = Append(statements, r.node)
                     /\ phase' = "parsing"
                ELSE /\ statements' = statements
                     /\ phase' = "parseFailed"
    /\ UNCHANGED <<program, tokens, irOut, asmOut>>
    /\ UNCHANGED <<macroVars, semVars, runVars>>

\* the loop of Parser::parse ends: parse returns statements
ParseReturn ==
    /\ phase = "parsing"
    /\ isAtEnd(tokens, current)
    /\ phase' = "parsed"
    /\ UNCHANGED <<program, tokens, current, statements, parseError, irOut,
                   asmOut>>
    /\ UNCHANGED <<macroVars, semVars, runVars>>

\* the catch block without its return 1: main goes on after a failed analysis
AnalyzeGoingOn ==
    /\ phase = "parsed"
    /\ LET r == analyze(inFunction, statements)
       IN  /\ declared' = r.declared
           /\ inFunction' = r.inFunction
           /\ semError' = r.error
           /\ semState' = IF r.error = NoError THEN "done" ELSE "failed"
           /\ phase' = "analyzed"
    /\ UNCHANGED <<stack, lastStmt, earlier, topDecl, walked>>
    /\ UNCHANGED <<program, tokens, current, statements, parseError, irOut,
                   asmOut>>
    /\ UNCHANGED <<macroVars, runVars>>

\* try { analyzer.analyze(statements); } catch (...) { return 1; }
Analyze ==
    /\ phase = "parsed"
    /\ LET r == analyze(inFunction, statements)
       IN  /\ declared' = r.declared
           /\ inFunction' = r.inFunction
           /\ semError' = r.error
           /\ semState' = IF r.error = NoError THEN "done" ELSE "failed"
           /\ phase' = IF r.error = NoError THEN "analyzed" ELSE "semFailed"
    /\ UNCHANGED <<stack, lastStmt, earlier, topDecl, walked>>
    /\ UNCHANGED <<program, tokens, current, statements, parseError, irOut,
                   asmOut>>
    /\ UNCHANGED <<macroVars, runVars>>

\* emit with the IR file opened for appending
EmitIRAppending ==
    /\ phase = "analyzed"
    /\ irOut' = irOut \o emit(statements)
    /\ written' = written \cup {"ir"}
    /\ phase' = "emitted"
    /\ UNCHANGED <<program, tokens, current, statements, parseError, asmOut>>
    /\ UNCHANGED <<macroVars, semVars, prevRun, runs>>

\* ir.emit(statements, "output/hello.fir")
EmitIR ==
    /\ phase = "analyzed"
    /\ irOut' = emit(statements)
    /\ written' = written \cup {"ir"}
    /\ phase' = "emitted"
    /\ UNCHANGED <<program, tokens, current, statements, parseError, asmOut>>
    /\ UNCHANGED <<macroVars, semVars, prevRun, runs>>

\* nasm.generate(statements, "output/hello.asm")
GenerateNASM ==
    /\ phase = "emitted"
    /\ asmOut' = generate(statements)
    /\ written' = written \cup {"asm"}
    /\ phase' = "generated"
    /\ UNCHANGED <<program, tokens, current, statements, parseError, irOut>>
    /\ UNCHANGED <<macroVars, semVars, prevRun, runs>>

\* the source text is tokenized: lexer.tokenize(); Parser parser(tokens);
LexerTokenizeText(src) ==
    /\ phase = "idle"
    /\ program' = src
    /\ tokens' = tokenizeText(src)
    /\ current' = 0
    /\ statements' = <<>>
    /\ phase' = "parsing"
    /\ UNCHANGED <<parseError, irOut, asmOut>>
    /\ UNCHANGED <<macroVars, semVars, runVars>>

\* a statement list is handed to the analyzer, the emitter and the
\* generator as the list parse() returned
ParseReturns(stmts) ==
    /\ phase = "idle"
    /\ statements' = stmts
    /\ phase' = "parsed"
    /\ UNCHANGED <<program, tokens, current, parseError, irOut, asmOut>>
    /\ UNCHANGED <<macroVars, semVars, runVars>>

\* parseFor() is called with the cursor on a for keyword
ParseFor ==
    /\ phase = "parsing"
    /\ peek(tokens, current).lexeme = "for"
    /\ LET r == parseFor(tokens, current)
       IN  /\ current' = r.current
           /\ parseError' = r.error
           /\ IF r.error = "none"
              THEN /\ statements' = Append(statements, r.node)
                   /\ phase' = "parsed"
              ELSE /\ statements' = statements
                   /\ phase' = "parseFailed"
    /\ UNCHANGED <<program, tokens, irOut, asmOut>>
    /\ UNCHANGED <<macroVars, semVars, runVars>>

\* no run of main has come before this one
NoRun == [input |-> <<>>, outcome |-> "none", ir |-> "", asm |-> <<>>]

MainInit ==
    /\ program = <<>>
    /\ tokens = <<>>
    /\ current = 0
    /\ statements = <<>>
    /\ phase = "idle"
    /\ parseError = "none"
    /\ irOut = ""
    /\ asmOut = <<>>
    /\ written = {}
    /\ prevRun = NoRun
    /\ runs = <<>>

-----------------------------------------------------------------------------
(* The macro engine on its own: define, loadDefaults and expand called in  *)
(* any order on one MacroExpander.                                         *)

InitMacro == MacroInit /\ SemInit /\ MainInit

NextMacro ==
    \/ \E name \in DefNames, replacement \in Replacements :
           Define(name, replacement)
    \/ LoadDefaults
    \/ \E text \in Texts : Expand(text)

SpecMacro == InitMacro /\ [][NextMacro]_vars

-----------------------------------------------------------------------------
(* The semantic analyzer on its own: analyze walks a statement tree that   *)
(* is supplied statement by statement.                                     *)

InitSem == MacroInit /\ SemInit /\ MainInit

NextSem ==
    \/ AnalyzeCall
    \/ \E n \in Names, v \in Values : StmtAssignment(n, v)
    \/ StmtFunctionDef
    \/ BodyEnd
    \/ StmtReturn
    \/ \E k \in IgnoredKinds : StmtIgnored(k)
    \/ AnalyzeReturn

SpecSem == InitSem /\ [][NextSem]_vars

\* C1: an assignment whose value is an identifier that no earlier assignment
\* has as its target makes analyze fail with an undeclared-variable error
\* naming the identifier (x = x with no earlier x included).
C1_UseBeforeDeclarationFails ==
    (/\ lastStmt.kind = "assign"
     /\ lastStmt.value.kind = "id"
     /\ lastStmt.value.name \notin earlier)
        => /\ semState = "failed"
           /\ semError = [kind |-> "UndeclaredVariable",
                          name |-> lastStmt.value.name]

\* C2: a return is accepted exactly when it stands inside a function body,
\* whatever precedes it there, and leaving a function body restores the
\* in-function state that held when the function was entered.
C2_ReturnOnlyInsideFunction ==
    [][/\ (lastStmt'.kind = "return" /\ walked' = walked + 1)
            => IF Len(stack') = 0
               THEN /\ semState' = "failed"
                    /\ semError'.kind = "ReturnOutsideFunction"
               ELSE /\ semState' = "running"
                    /\ semError' = NoError
       /\ (semState' = "running" /\ Len(stack') < Len(stack))
            => inFunction' = stack[Len(stack)].saved]_vars

\* C3: what a top-level assignment has declared stays declared while a
\* function body is analyzed and after it, so no later use of it raises an
\* undeclared-variable error.
C3_GlobalScopePersists ==
    /\ semState = "running" => topDecl \subseteq declared
    /\ (semState = "failed" /\ semError.kind = "UndeclaredVariable")
            => semError.name \notin topDecl

-----------------------------------------------------------------------------
(* main from the tokens on: parse, analyze, emit the IR.                   *)

InitMain == MacroInit /\ SemInit /\ MainInit

NextMain ==
    \/ \E p \in Programs : LexerTokenize(p)
    \/ ParseStatement
    \/ ParseReturn
    \/ Analyze
    \/ EmitIR
    \/ GenerateNASM

SpecMain == InitMain /\ [][NextMain]_vars

\* the STORE line of a source assignment
StoreLine(st) ==
    "STORE " \o st.name \o " <- " \o
       (IF st.value.kind = "num" THEN "NUM(" \o st.value.name \o ")"
        ELSE IF st.value.kind = "id" THEN "REF(" \o st.value.name \o ")"
        ELSE "ADD(REF(" \o st.value.left \o "), REF(" \o st.value.right \o "))")
       \o "\n"

RECURSIVE StoreLines(_)
StoreLines(p) == IF p = <<>> THEN "" ELSE StoreLine(Head(p)) \o StoreLines(Tail(p))

\* C10: a program of n semicolon-terminated assignments with a number, an
\* identifier or x + y on the right parses to its n Assignment nodes in source
\* order, and the IR written for it is its n STORE lines in that order.
C10_AssignmentsParseAndLower ==
    /\ phase # "parseFailed"
    /\ phase \in {"parsed", "analyzed", "semFailed", "emitted", "generated"}
          => statements = program
    /\ phase \in {"emitted", "generated"} => irOut = StoreLines(program)

-----------------------------------------------------------------------------
(* main from the source text on: the text is a list of statements, well    *)
(* formed or not, of every form the language has.                          *)

AssignTexts == {<<n, "=", v, ";">> : n \in Names, v \in {"5", "x"}}

\* literal-only arithmetic right-hand sides
ArithExprs == {<<"2", "+", "3", "*", "4">>, <<"5", "-", "3", "-", "2">>,
               <<"5", "%", "3", "/", "2">>}
ArithTexts == {<<"x", "=">> \o e \o <<";">> : e \in ArithExprs}

\* an assignment without its terminator, and one without its expression
NoSemiTexts == {<<n, "=", "5">> : n \in Names}
NoExprTexts == {<<"x", "=", ";">>}

IfText       == <<"if", "(", "x", ")", "{", "y", "=", "5", ";", "}">>
IfElseText   == IfText \o <<"else", "{", "y", "=", "x", ";", "}">>
WhileText    == <<"while", "(", "x", ")", "{", "y", "=", "5", ";", "}">>
ForText      == <<"for", "(", "x", "=", "5", ";", "x", ";", "x", "=", "y",
                  ")", "{", "}">>
FunctionText == <<"Start", "f", "(", ")", "{", "Return", "x", ";", "}">>
StructText   == <<"Init", "Vec2", "{", "x", ";", "y", ";", "}">>
ReturnTexts  == {<<"Return", "x", ";">>, <<"Return", ";">>}

\* the statement forms other than the assignment
FormTexts == {IfText, IfElseText, WhileText, ForText, FunctionText,
              StructText} \cup ReturnTexts

SourceStmts == AssignTexts \cup ArithTexts \cup NoSemiTexts \cup NoExprTexts
                   \cup FormTexts
Sources     == SeqsUpTo(SourceStmts, MaxSrc)

InitParse == MacroInit /\ SemInit /\ MainInit

NextParse ==
    \/ \E src \in Sources : LexerTokenizeText(src)
    \/ ParseStatement
    \/ ParseReturn
    \/ Analyze
    \/ EmitIR
    \/ GenerateNASM

SpecParse == InitParse /\ [][NextParse]_vars

\* enum Precedence
Precedence == [PREC_LOWEST |-> 0, PREC_ASSIGN |-> 1, PREC_COND |-> 2,
               PREC_SUM |-> 3, PREC_PRODUCT |-> 4, PREC_PREFIX |-> 5,
               PREC_CALL |-> 6, PREC_PRIMARY |-> 7]

NumValue == ("2" :> 2) @@ ("3" :> 3) @@ ("4" :> 4) @@ ("5" :> 5)

Apply(op, a, b) ==
    IF op = "+" THEN a + b
    ELSE IF op = "-" THEN a - b
    ELSE IF op = "*" THEN a * b
    ELSE IF op = "/" THEN a \div b
    ELSE a % b

\* the value of the product that starts at operand i of e, acc being the
\* value of its operands up to i, and the index of its last operand
RECURSIVE Product(_, _, _)
Product(e, i, acc) ==
    IF i + 2 <= Len(e) /\ e[i + 1] \in {"*", "/", "%"}
    THEN Product(e, i + 2, Apply(e[i + 1], acc, NumValue[e[i + 2]]))
    ELSE [value |-> acc, next |-> i]

RECURSIVE Sum(_, _, _)
Sum(e, i, acc) ==
    IF i + 2 <= Len(e)
    THEN LET p == Product(e, i + 2, NumValue[e[i + 2]])
         IN  Sum(e, p.next, Apply(e[i + 1], acc, p.value))
    ELSE acc

\* the mathematical value of a literal-only expression: products first,
\* operators of one level from left to right
MathValue(e) ==
    LET p == Product(e, 1, NumValue[e[1]])
    IN  Sum(e, p.next, p.value)

\* the right-hand side of an assignment text
Rhs(f) == SubSeq(f, 3, Len(f) - 1)

\* the value of a literal-only expression node, if it has one
EvalExpr(node) == IF node.kind = "num" THEN {NumValue[node.name]} ELSE {}

\* the value a reference interpreter of the IR stores for the line written
\* for st, if that line stores a literal value
IRValue(st) ==
    {NumValue[w] : w \in {v \in NumberLexemes :
        emit(<<st>>) = "STORE " \o st.name \o " <- NUM(" \o v \o ")\n"}}

\* the text is made of terminated assignments only
AssignmentsOnly ==
    \A i \in 1..Len(program) : program[i] \in AssignTexts \cup ArithTexts

\* C11: a literal-only arithmetic right-hand side over + - * / % parses to
\* an expression, and lowers to IR, whose value is its mathematical value
\* with products before sums and operators of one level taken from left to
\* right (2 + 3 * 4 gives 14); the Precedence enumeration ranks product
\* above sum, sum above ternary and ternary above assignment.
C11_ArithmeticFollowsPrecedence ==
    /\ Precedence.PREC_PRODUCT > Precedence.PREC_SUM
    /\ Precedence.PREC_SUM > Precedence.PREC_COND
    /\ Precedence.PREC_COND > Precedence.PREC_ASSIGN
    /\ AssignmentsOnly =>
         /\ phase # "parseFailed"
         /\ phase \in {"parsed", "analyzed", "semFailed", "emitted", "generated"}
              => /\ Len(statements) = Len(program)
                 /\ \A i \in 1..Len(program) :
                      program[i] \in ArithTexts =>
                        EvalExpr(statements[i].value)
                            = {MathValue(Rhs(program[i]))}
         /\ phase \in {"emitted", "generated"}
              => \A i \in 1..Len(program) :
                   program[i] \in ArithTexts =>
                     IRValue(statements[i]) = {MathValue(Rhs(program[i]))}

\* the kind of AST node a statement text stands for, by its leading lexeme
NodeKind(f) ==
    IF f[1] = "if" THEN "if"
    ELSE IF f[1] = "while" THEN "while"
    ELSE IF f[1] = "for" THEN "for"
    ELSE IF f[1] = "Start" THEN "func"
    ELSE IF f[1] = "Init" THEN "struct"
    ELSE IF f[1] = "Return" THEN "return"
    ELSE "assign"

\* the text is made of well-formed statements with plain right-hand sides
WellFormedForms ==
    \A i \in 1..Len(program) : program[i] \in AssignTexts \cup FormTexts

\* C12: a text made of well-formed statements of any form (assignment, if
\* with or without else, while, for, function definition, struct
\* definition, return with or without value, with statements inside their
\* blocks) is parsed without an error, to one node per statement, each of
\* the kind its leading token announces.
C12_EveryStatementFormAccepted ==
    WellFormedForms =>
        /\ parseError # "Unexpected statement"
        /\ phase # "parseFailed"
        /\ phase \in {"parsed", "analyzed", "semFailed", "emitted", "generated"}
             => /\ Len(statements) = Len(program)
                /\ \A i \in 1..Len(program) :
                     statements[i].kind = NodeKind(program[i])

Malformed(f) == f \in NoSemiTexts \cup NoExprTexts

\* the text is made of assignments, terminated or not, with a plain
\* right-hand side or none
PlainAssignments ==
    \A i \in 1..Len(program) :
        program[i] \in AssignTexts \cup NoSemiTexts \cup NoExprTexts

MalformedAt == {i \in 1..Len(program) : Malformed(program[i])}

\* C13: when the text contains a malformed construct, parse never returns
\* a statement list; it fails at the first malformed construct, having
\* parsed the statements before it and none after it, and its error names
\* an expected token and the found token with that token's 1-based line
\* and column.
C13_FirstMalformedConstructReported ==
    (PlainAssignments /\ MalformedAt # {}) =>
        /\ phase \notin {"parsed", "analyzed", "semFailed", "emitted",
                         "generated"}
        /\ phase = "parseFailed" =>
             LET err   == ParseErrorOf(parseError)
                 found == peek(tokens, current)
                 first == CHOOSE i \in MalformedAt :
                              \A j \in MalformedAt : i <= j
             IN  /\ Len(statements) = first - 1
                 /\ err.expected # ""
                 /\ err.found = found.lexeme
                 /\ err.line = found.line
                 /\ err.column = found.column
                 /\ err.line >= 1 /\ err.column >= 1

\* the positions of the assignments written without their terminator, in a
\* text made of assignments with a plain right-hand side
UnterminatedAt ==
    IF \A i \in 1..Len(program) : program[i] \in AssignTexts \cup NoSemiTexts
    THEN {i \in 1..Len(program) : program[i] \in NoSemiTexts}
    ELSE {}

\* C14: an assignment whose expression is not followed by ';' is rejected:
\* parse never yields a node for it and never returns a statement list for
\* the text it stands in; x = 5 y = 5 is never parsed into two Assignment
\* nodes.
C14_UnterminatedAssignmentRejected ==
    /\ \A i \in UnterminatedAt : Len(statements) < i
    /\ UnterminatedAt # {} =>
          phase \notin {"parsed", "analyzed", "semFailed", "emitted",
                        "generated"}
    /\ (Len(program) = 2 /\ UnterminatedAt = {1, 2}) => Len(statements) < 2

-----------------------------------------------------------------------------
(* parseFor on its own: it is called on the text of one for statement,     *)
(* given clause by clause, either semicolon of the header present or not.  *)

Semis == {<<";">>, <<>>}

ForSources ==
    {<<<<"for", "(">>, init, semi1, cond, semi2, incr, <<")", "{">>>>
         \o body \o <<<<"}">>>> :
       init \in {<<"x", "=", "5">>, <<"y", "=", "x">>},
       semi1 \in Semis,
       cond \in {<<"x">>, <<"5">>},
       semi2 \in Semis,
       incr \in {<<"x", "=", "y">>, <<"y", "=", "5">>},
       body \in SeqsUpTo(AssignTexts, MaxBody)}

InitFor == MacroInit /\ SemInit /\ MainInit

NextFor ==
    \/ \E src \in ForSources : LexerTokenizeText(src)
    \/ ParseFor

SpecFor == InitFor /\ [][NextFor]_vars

\* the nodes the clauses of a for statement stand for
ExprOf(c) == IF c[1] \in NumberLexemes THEN NumberExpr(c[1])
             ELSE IdentifierExpr(c[1])
NodeOf(f) == Assignment(f[1], ExprOf(<<f[3]>>))

\* C15: parseFor returns a ForLoop only for a header with both semicolons,
\* the one after the initializer and the one after the condition, and the
\* node it returns holds the initializer, the condition, the increment and
\* the body statements of the text in source order.
C15_ForHeaderNeedsBothSemicolons ==
    phase = "parsed" =>
        /\ program[3] = <<";">>
        /\ program[5] = <<";">>
        /\ statements =
             <<ForLoop(NodeOf(program[2]), ExprOf(program[4]),
                       NodeOf(program[6]),
                       [i \in 1..(Len(program) - 8) |-> NodeOf(program[7 + i])])>>

-----------------------------------------------------------------------------
(* The analyzer, the IR emitter and the code generator on statement lists  *)
(* with every kind of node: analyze, emit and generate as main calls them. *)

TreeStmts ==
    {Assignment(n, v) : n \in Names, v \in Values}
        \cup {Assignment("x", StructInit("Vec2")),
              StructDef("Vec2", <<"x", "y">>),
              IfStatement(IdentifierExpr("x"),
                          <<Assignment("y", NumberExpr("5"))>>,
                          <<Assignment("y", IdentifierExpr("x"))>>),
              FunctionDef("f", <<ReturnStatement>>),
              FunctionDef("f", <<Assignment("x", NumberExpr("5")),
                                 ReturnStatement>>),
              ReturnStatement}

Trees == SeqsUpTo(TreeStmts, MaxTree)

InitBack == MacroInit /\ SemInit /\ MainInit

NextBack ==
    \/ \E stmts \in Trees : ParseReturns(stmts)
    \/ Analyze
    \/ EmitIR
    \/ GenerateNASM

SpecBack == InitBack /\ [][NextBack]_vars

\* the number of instructions of ins whose opcode is one of ops
CountOps(ins, ops) == Cardinality({k \in 1..Len(ins) : ins[k].op \in ops})

\* C16: an if statement with a then-branch and an else-branch is lowered
\* to one comparison, one conditional jump, two label definitions and at
\* most one unconditional jump, with the instructions of the statements of
\* both branches among them; what is written for it is never empty.
C16_IfLowersToCompareAndJumps ==
    phase \in {"emitted", "generated"} =>
        \A i \in 1..Len(statements) :
            LET st == statements[i]
            IN  (st.kind = "if" /\ st.thenBranch # <<>> /\ st.elseBranch # <<>>)
                  => LET ins == instructions(st)
                     IN  /\ ins # <<>>
                         /\ CountOps(ins, {"CMP"}) = 1
                         /\ CountOps(ins, {"JUMP_IF_ZERO",
                                           "JUMP_IF_NOT_ZERO"}) = 1
                         /\ CountOps(ins, {"LABEL"}) = 2
                         /\ CountOps(ins, {"JUMP"}) <= 1
                         /\ CountOps(ins, {"STORE"})
                               = Len(st.thenBranch) + Len(st.elseBranch)
                         /\ Len(statements) = 1 => irOut # ""

\* the number of lines of asm equal to l
CountLines(asm, l) == Cardinality({k \in 1..Len(asm) : asm[k] = l})

FunctionsAt == {i \in 1..Len(statements) : statements[i].kind = "func"}

\* the number of return statements in the bodies of the functions of stmts
RECURSIVE ReturnsIn(_)
ReturnsIn(stmts) ==
    IF stmts = <<>> THEN 0
    ELSE (IF Head(stmts).kind = "func"
          THEN Cardinality({k \in 1..Len(Head(stmts).body) :
                               Head(stmts).body[k].kind = "return"})
          ELSE 0) + ReturnsIn(Tail(stmts))

Teardown == <<"    mov rsp, rbp", "    pop rbp", "    ret">>

\* C17: the assembly has, for each function, one .return label followed by
\* the one teardown sequence (mov rsp, rbp; pop rbp; ret), and one
\* jmp .return for each return statement of a function; no jmp .return
\* stands in an assembly without a .return label.
C17_OneTeardownPerFunction ==
    phase = "generated" =>
        /\ CountLines(asmOut, ".return:") = Cardinality(FunctionsAt)
        /\ \A k \in 1..3 :
              CountLines(asmOut, Teardown[k]) = Cardinality(FunctionsAt)
        /\ \A k \in 1..Len(asmOut) :
              asmOut[k] = ".return:" =>
                  /\ k + 3 <= Len(asmOut)
                  /\ SubSeq(asmOut, k + 1, k + 3) = Teardown
        /\ CountLines(asmOut, "    jmp .return") = ReturnsIn(statements)
        /\ CountLines(asmOut, "    jmp .return") > 0
              => CountLines(asmOut, ".return:") > 0

\* the bytes the data section reserves under the name n: one quadword for
\* each definition n dq 0
SlotBytes(asm, n) == 8 * CountLines(asm, n \o " dq 0")

\* C18: a variable initialised as an instance of a struct declared with n
\* fields occupies a slot of 8 * n bytes (16 bytes for Vec2 { x; y; }), so
\* that the i-th field has the offset 8 * i inside the slot.
C18_StructSlotHoldsEveryField ==
    phase = "generated" =>
        \A i, j \in 1..Len(statements) :
            LET var == statements[i]
                def == statements[j]
            IN  (/\ def.kind = "struct"
                 /\ var.kind = "assign"
                 /\ var.value.kind = "structInit"
                 /\ var.value.name = def.name)
                  => /\ SlotBytes(asmOut, var.name) = 8 * Len(def.fields)
                     /\ \A k \in 1..Len(def.fields) :
                           8 * (k - 1) + 8 <= SlotBytes(asmOut, var.name)

\* the names the statement list declares, and the lines of the assembly
\* that define a storage slot
DeclaredNames == {statements[i].name :
                     i \in {k \in 1..Len(statements) :
                               statements[k].kind = "assign"}}
SlotLines == {k \in 1..Len(asmOut) : \E n \in Names : asmOut[k] = n \o " dq 0"}

\* C19: the generator allocates as many storage slots as the program has
\* distinct declared names: each declared name has exactly one definition
\* in the data section, however many assignments it is the target of.
C19_OneSlotPerName ==
    phase = "generated" =>
        /\ Cardinality(SlotLines) = Cardinality(DeclaredNames)
        /\ \A n \in DeclaredNames : CountLines(asmOut, n \o " dq 0") = 1

\* the statements generate has code for: assignments of a number or of an
\* identifier
HasCode(st) == st.kind = "assign" /\ st.value.kind \in {"num", "id"}

Blocks(st) ==
    IF st.kind = "func" THEN <<st.body>>
    ELSE IF st.kind = "if" THEN <<st.thenBranch, st.elseBranch>>
    ELSE <<>>

\* a walk of the whole tree in source order, from the names in decl: whether
\* every identifier an assignment reads is its own target or the target of
\* an assignment walked before it, and the names declared at the end
RECURSIVE WalkTree(_, _), WalkBlocks(_, _)
WalkTree(decl, stmts) ==
    IF stmts = <<>> THEN [ok |-> TRUE, declared |-> decl]
    ELSE LET st == Head(stmts)
             here == IF st.kind = "assign"
                     THEN [ok |-> st.value.kind = "id"
                                     => st.value.name \in decl \cup {st.name},
                           declared |-> decl \cup {st.name}]
                     ELSE WalkBlocks(decl, Blocks(st))
             rest == WalkTree(here.declared, Tail(stmts))
         IN  [ok |-> here.ok /\ rest.ok, declared |-> rest.declared]
WalkBlocks(decl, blocks) ==
    IF blocks = <<>> THEN [ok |-> TRUE, declared |-> decl]
    ELSE LET first == WalkTree(decl, Head(blocks))
             rest  == WalkBlocks(first.declared, Tail(blocks))
         IN  [ok |-> first.ok /\ rest.ok, declared |-> rest.declared]

\* C24: analyze succeeds only if, in the whole tree, function bodies and
\* the blocks of if statements included, every identifier an assignment
\* reads has been declared by then; an undeclared identifier read at any
\* nesting depth makes analyze fail.
C24_NestedBlocksAnalyzed ==
    phase \in {"analyzed", "emitted", "generated"}
        => WalkTree({}, statements).ok

\* the targets of the assignments among the first n statements of a list
TargetsUpTo(stmts, n) ==
    {stmts[i].name : i \in {j \in 1..n : stmts[j].kind = "assign"}}

\* every assignment of the list whose value is an identifier names its own
\* target or the target of an earlier assignment of the list
ReadsNamed(stmts) ==
    \A i \in 1..Len(stmts) :
        (stmts[i].kind = "assign" /\ stmts[i].value.kind = "id")
            => stmts[i].value.name \in TargetsUpTo(stmts, i)

\* C29: analyze(S) succeeds exactly when every assignment of S whose value
\* is an identifier names the target of that assignment or of an earlier
\* one, and after a successful call the declared set holds the target of
\* every assignment of S.  The equivalence is asked of the lists made of
\* assignments alone, and of the declared set only that no target of S is
\* missing from it, so that a return statement outside a function and the
\* names assigned inside a function body do not count against the code.
C29_DeclaredIsTheAssignmentTargets ==
    phase \in {"analyzed", "emitted", "generated", "semFailed"}
        => /\ (\A i \in 1..Len(statements) : statements[i].kind = "assign")
                => ((phase # "semFailed") <=> ReadsNamed(statements))
           /\ phase = "analyzed"
                => TargetsUpTo(statements, Len(statements)) \subseteq declared

\* the lines of the text section that read or write the variable v through
\* a memory operand, and the line of the data section that defines it
MemoryOperandLines(v) == {"    mov rax, [" \o v \o "]", "    mov [" \o v \o "], rax"}
DefinitionLine(v) == v \o " dq 0"

\* the instructions of the IR in file order, one list per statement
IRInstructions(stmts) == [i \in 1..Len(stmts) |-> instructions(stmts[i])]

\* the instruction stores to v; the instruction reads v through REF(v)
StoresTo(ins, v) ==
    \E e \in {"NUM(" \o a \o ")\n" : a \in {"0", "5"}}
             \cup {"REF(" \o a \o ")\n" : a \in Names} \cup {""} :
        ins.text = "STORE " \o v \o " <- " \o e
RefersTo(ins, v) ==
    \E t \in Names : ins.text = "STORE " \o t \o " <- REF(" \o v \o ")\n"

\* C30: when analyze has succeeded, the generated assembly and IR are
\* closed: a variable read or written through a memory operand [v] in the
\* text section has a definition v dq 0 in the data section, and a variable
\* referenced by REF(v) in the IR is the target of a STORE line at or
\* before that line.
C30_OutputIsClosed ==
    phase = "generated" =>
        /\ \A v \in Names :
              (\E k \in 1..Len(asmOut) : asmOut[k] \in MemoryOperandLines(v))
                  => \E k \in 1..Len(asmOut) : asmOut[k] = DefinitionLine(v)
        /\ irOut = emit(statements)
        /\ LET ir == IRInstructions(statements)
           IN  \A i \in 1..Len(ir) : \A v \in Names :
                  (\E a \in 1..Len(ir[i]) : RefersTo(ir[i][a], v))
                      => \E j \in 1..i : \E b \in 1..Len(ir[j]) :
                             StoresTo(ir[j][b], v)

-----------------------------------------------------------------------------
(* The parser on any token sequence that ends in its only end-of-file token *)

AnyTokens == {Token("Identifier", "x", 1, 1), Token("Number", "5", 1, 1),
              Token("Assign", "=", 1, 1), Token("EndOfLine", ";", 1, 1)}

TokenSeqs == {ts \o <<Token("EndOfFile", "", 1, 1)>> :
                 ts \in SeqsUpTo(AnyTokens, MaxTokens)}

\* Parser parser(tokens) : the constructor, current(0)
ParserNew(toks) ==
    /\ phase = "idle"
    /\ tokens' = toks
    /\ current' = 0
    /\ statements' = <<>>
    /\ phase' = "parsing"
    /\ UNCHANGED <<program, parseError, irOut, asmOut>>
    /\ UNCHANGED <<macroVars, semVars, runVars>>

\* the reads of the token vector one call makes, in the order it makes
\* them: peek() reads tokens[current], previous() reads tokens[current - 1],
\* the lookahead of parseStatement reads tokens[current + 1]
Read(call, cur) == [call |-> call, current |-> cur]

isAtEndReads(cur) == <<Read("peek", cur)>>

advanceReads(toks, cur) ==
    isAtEndReads(cur) \o <<Read("previous", advance(toks, cur))>>

matchReads(toks, cur, type) ==
    <<Read("peek", cur)>>
        \o (IF peek(toks, cur).type = type THEN advanceReads(toks, cur)
            ELSE <<>>)

parseExpressionReads(toks, cur) ==
    LET num == match(toks, cur, "Number")
        id  == match(toks, cur, "Identifier")
    IN  matchReads(toks, cur, "Number")
            \o (IF num.matched THEN <<Read("previous", num.current)>>
                ELSE matchReads(toks, cur, "Identifier")
                         \o (IF id.matched
                             THEN <<Read("previous", id.current)>>
                             ELSE <<>>))

parseAssignmentReads(toks, cur) ==
    LET c1   == advance(toks, cur)
        c2   == match(toks, c1, "Assign").current
        expr == parseExpression(toks, c2)
    IN  <<Read("peek", cur)>> \o advanceReads(toks, cur)
            \o matchReads(toks, c1, "Assign")
            \o parseExpressionReads(toks, c2)
            \o (IF expr.error = "none"
                THEN matchReads(toks, expr.current, "EndOfLine")
                ELSE <<>>)

parseStatementReads(toks, cur) ==
    <<Read("peek", cur)>>
        \o (IF peek(toks, cur).type = "Identifier"
            THEN <<Read("lookahead", cur)>>
                     \o (IF cur + 2 <= Len(toks)
                            /\ toks[cur + 2].type = "Assign"
                         THEN parseAssignmentReads(toks, cur)
                         ELSE <<>>)
            ELSE <<>>)

NextTok ==
    \/ \E toks \in TokenSeqs : ParserNew(toks)
    \/ ParseStatement
    \/ ParseReturn

\* parse() is one sequential loop: a turn that can be taken is taken
SpecTok ==
    InitMain /\ [][NextTok]_vars
        /\ WF_vars(ParseStatement) /\ WF_vars(ParseReturn)

\* C27: on a token sequence whose last token, and no other, is end-of-file,
\* the cursor stays within 0 .. length - 1 in every state of parse, the
\* lookahead tokens[current + 1] is read only when current + 1 is at most
\* length - 1, previous() is called only when current is at least 1, and
\* advance never moves the cursor past the end-of-file token.
C27_CursorStaysInside ==
    phase \in {"parsing", "parsed", "parseFailed"} =>
        /\ 0 <= current /\ current <= Len(tokens) - 1
        /\ (phase = "parsing" /\ ~isAtEnd(tokens, current)) =>
              LET reads == parseStatementReads(tokens, current)
              IN  \A k \in 1..Len(reads) :
                     /\ 0 <= reads[k].current
                     /\ reads[k].current <= Len(tokens) - 1
                     /\ reads[k].call = "lookahead"
                           => reads[k].current + 1 <= Len(tokens) - 1
                     /\ reads[k].call = "previous" => reads[k].current >= 1
        /\ \A c \in 0..(Len(tokens) - 1) :
              advance(tokens, c) <= Len(tokens) - 1

\* a statement has been parsed whose expression is the last token before
\* end-of-file, so that match(EndOfLine) looked at the end-of-file token
C27_Witness ==
    /\ phase = "parsed"
    /\ Len(tokens) = 4
    /\ Len(statements) = 1
    /\ current = 3

\* a turn of the loop of parse: the loop is running and the cursor is not
\* on the end-of-file token
LoopTurn == phase = "parsing" /\ ~isAtEnd(tokens, current)

\* C28: parse terminates on every token sequence that ends in end-of-file:
\* a turn of its loop raises an error or moves the cursor forward by at
\* least three tokens (the identifier, the '=' and one expression token),
\* so the turns taken never outnumber the tokens, the loop always comes to
\* its end or to an error, and on a normal return the cursor is on the
\* end-of-file token.
C28_ParseTerminates ==
    /\ [][LoopTurn => (phase' = "parseFailed" \/ current' >= current + 3)]_vars
    /\ [](phase \in {"parsing", "parsed", "parseFailed"}
            => /\ 3 * Len(statements) <= current
               /\ Len(statements) + 1 <= Len(tokens))
    /\ [](phase = "parsed" => isAtEnd(tokens, current))
    /\ (phase = "parsing") ~> (phase \in {"parsed", "parseFailed"})

\* parse has returned normally after two turns of its loop
C28_Witness ==
    /\ phase = "parsed"
    /\ Len(statements) = 2
    /\ isAtEnd(tokens, current)

-----------------------------------------------------------------------------
(* parseFunctionCall on its own: it is called on the text of one call, the  *)
(* name read and the cursor on the '(' .                                    *)

FunctionCall(n, args) ==
    [kind |-> "call", name |-> n, left |-> "", right |-> "",
     arguments |-> args]

\* match(c), which parseFunctionCall calls with a character and no source
\* file defines: the step over the token at the cursor when it is c
matchChar(toks, cur, c) ==
    IF check(toks, cur, c)
    THEN [matched |-> TRUE, current |-> advance(toks, cur)]
    ELSE [matched |-> FALSE, current |-> cur]

\* while (!check(')')) { args.push_back(parseExpression());
\*                       if (!match(')')) match(','); }
RECURSIVE callArguments(_, _, _)
callArguments(toks, cur, args) ==
    IF check(toks, cur, ")")
    THEN [error |-> "none", current |-> cur, nodes |-> args]
    ELSE LET e == parseExpression(toks, cur)
             close == matchChar(toks, e.current, ")")
             next  == IF close.matched THEN close.current
                      ELSE matchChar(toks, e.current, ",").current
         IN  IF e.error # "none"
             THEN [error |-> e.error, current |-> e.current, nodes |-> args]
             ELSE callArguments(toks, next, Append(args, e.node))

\* parseFunctionCall(name), called with the cursor on the '('
parseFunctionCall(toks, cur, name) ==
    LET r == callArguments(toks, advance(toks, cur), <<>>)
    IN  IF r.error # "none"
        THEN [error |-> r.error, current |-> r.current, node |-> NoExpr]
        ELSE [error |-> "none", current |-> r.current,
              node |-> FunctionCall(name, r.nodes)]

\* the caller has read the name of the function and stands on the '('
ParseFunctionCall ==
    /\ phase = "parsing"
    /\ current = 0
    /\ Len(tokens) >= 2
    /\ tokens[1].type = "Identifier"
    /\ tokens[2].lexeme = "("
    /\ LET r == parseFunctionCall(tokens, 1, tokens[1].lexeme)
       IN  /\ current' = r.current
           /\ parseError' = r.error
           /\ IF r.error = "none"
              THEN /\ statements' = <<r.node>>
                   /\ phase' = "parsed"
              ELSE /\ statements' = statements
                   /\ phase' = "parseFailed"
    /\ UNCHANGED <<program, tokens, irOut, asmOut>>
    /\ UNCHANGED <<macroVars, semVars, runVars>>

\* the lexemes of an argument list: the arguments with a comma between them
RECURSIVE Commas(_)
Commas(args) ==
    IF Len(args) <= 1 THEN args
    ELSE <<Head(args), ",">> \o Commas(Tail(args))

\* the texts of a call: its arguments, and what follows its ')'
CallSources ==
    {<<<<"f", "(">>, Commas(args), <<")">>, after>> :
        args \in SeqsUpTo({"x", "y", "5"}, MaxArgs),
        after \in {<<>>, <<";">>, <<"x">>, <<")">>, <<",", "y">>}}

NextCall ==
    \/ \E src \in CallSources : LexerTokenizeText(src)
    \/ ParseFunctionCall

SpecCall == InitMain /\ [][NextCall]_vars

\* the arguments of the call in the text, in source order
ArgumentsOf(src) ==
    LET lexemes == SelectSeq(src[2], LAMBDA l : l # ",")
    IN  [k \in 1..Len(lexemes) |-> ExprOf(<<lexemes[k]>>)]

\* C25: parseFunctionCall, entered at the '(' of a call with no argument or
\* with comma-separated arguments, returns a FunctionCall whose arguments
\* are the argument expressions of the text in source order and leaves the
\* cursor on the first token after the matching ')'; no token after that
\* ')' is parsed as a further argument.
C25_CallConsumedThroughItsParen ==
    phase \in {"parsed", "parseFailed"} =>
        /\ phase = "parsed"
        /\ statements = <<FunctionCall("f", ArgumentsOf(program))>>
        /\ current = 3 + Len(program[2])

-----------------------------------------------------------------------------
(* Compound assignment: the text of one statement v += e goes through       *)
(* parse(), or straight into the PlusEq branch with the name read and the   *)
(* cursor on the += token.                                                  *)

\* readVar(varName), which the branch calls and no source file defines: the
\* expression that reads the variable
readVar(varName) == IdentifierExpr(varName)

\* if (match(TokenType::PlusEq)) { auto value = parseExpression();
\*     return Assignment(varName, BinaryExpr("+", readVar(varName), value)); }
plusEqAssignment(toks, cur, varName) ==
    LET m     == match(toks, cur, "PlusEq")
        value == parseExpression(toks, m.current)
    IN  IF ~m.matched
        THEN [error |-> "Unexpected statement", current |-> cur,
              node |-> NoStmt]
        ELSE IF value.error # "none"
        THEN [error |-> value.error, current |-> value.current,
              node |-> NoStmt]
        ELSE [error |-> "none", current |-> value.current,
              node |-> Assignment(varName,
                          BinaryExpr("+", readVar(varName), value.node))]

\* the branch is entered with the name of the target read
ParsePlusEq ==
    /\ phase = "parsing"
    /\ current = 0
    /\ Len(tokens) >= 2
    /\ tokens[1].type = "Identifier"
    /\ tokens[2].type = "PlusEq"
    /\ LET r == plusEqAssignment(tokens, 1, tokens[1].lexeme)
       IN  /\ current' = r.current
           /\ parseError' = r.error
           /\ IF r.error = "none"
              THEN /\ statements' = <<r.node>>
                   /\ phase' = "parsed"
              ELSE /\ statements' = statements
                   /\ phase' = "parseFailed"
    /\ UNCHANGED <<program, tokens, irOut, asmOut>>
    /\ UNCHANGED <<macroVars, semVars, runVars>>

\* right-hand sides: one operand, or an operation on two
PlusRhs ==
    LET operands == {"x", "y", "5", "2"}
    IN  {<<a>> : a \in operands}
            \cup {<<a, op, b>> : a \in operands, b \in operands,
                                 op \in {"+", "*"}}

\* v += e ;  and the plain v = v + e ;
CompoundTexts == {<<<<v>>, <<"+=">>, e, <<";">>>> : v \in Names, e \in PlusRhs}
PlainTexts ==
    {<<<<v>>, <<"=">>, <<v, "+">> \o e, <<";">>>> : v \in Names, e \in PlusRhs}

NextPlus ==
    \/ \E src \in CompoundTexts \cup PlainTexts : LexerTokenizeText(src)
    \/ ParseStatement
    \/ ParsePlusEq

SpecPlus == InitMain /\ [][NextPlus]_vars

\* C26: v += e is parsed into the AST of v = v + e: one Assignment whose
\* target is v and whose value is the binary expression + with a read of v
\* on the left and, on the right, e, the complete right-hand expression, so
\* that the statement is consumed up to its end.
C26_CompoundIsPlainAddition ==
    (phase \in {"parsed", "parseFailed"} /\ program \in CompoundTexts) =>
        /\ phase = "parsed"
        /\ Len(statements) = 1
        /\ statements[1].kind = "assign"
        /\ statements[1].name = program[1][1]
        /\ statements[1].value.kind = "bin"
        /\ statements[1].value.name = "+"
        /\ statements[1].value.left = IdentifierExpr(program[1][1])
        /\ Len(program[3]) = 1
              => statements[1].value.right = ExprOf(program[3])
        /\ current >= 2 + Len(program[3])

-----------------------------------------------------------------------------
(* A whole run of main on the text of the sample file, and the run after it *)

\* the lexer on characters (its class is not part of Compiler.cpp): blanks
\* separate, a run of digits is a number, '=' and ';' are the assignment
\* and the terminator, any other punctuation character is a symbol, and a
\* run of other characters is a keyword or an identifier
Digits      == {"0", "1", "2", "3", "4", "5", "6", "7", "8", "9"}
Punctuation == {"=", ";", "|", "+", "-"}

RECURSIVE RunEnd(_, _, _)
RunEnd(s, i, inDigits) ==
    IF i <= Len(s) /\ s[i] \notin Whitespace \cup Punctuation
                   /\ (s[i] \in Digits) = inDigits
    THEN RunEnd(s, i + 1, inDigits) ELSE i

\* the characters of a lexeme as one string
RECURSIVE Str(_)
Str(cs) == IF cs = <<>> THEN "" ELSE Head(cs) \o Str(Tail(cs))

RECURSIVE scan(_, _, _)
scan(s, i, acc) ==
    LET b  == SkipWs(s, i)
        c  == s[b]
        e  == IF c \in Punctuation THEN b + 1 ELSE RunEnd(s, b, c \in Digits)
        lx == Str(SubSeq(s, b, e - 1))
        t  == IF c \in Digits THEN "Number"
              ELSE IF c = "=" THEN "Assign"
              ELSE IF c = ";" THEN "EndOfLine"
              ELSE IF c \in Punctuation THEN "Symbol"
              ELSE IF lx \in Keywords THEN "Keyword"
              ELSE "Identifier"
    IN  IF b > Len(s) THEN acc
        ELSE scan(s, e, Append(acc, Token(t, lx, 1, 1)))

tokenizeChars(s) == Place(scan(s, 1, <<>>) \o <<Token("EndOfFile", "", 1, 1)>>)

\* the texts of samples/hello.hl: assignments and invocations of the
\* default macros, one blank between them
RECURSIVE Join(_)
Join(ps) ==
    IF ps = <<>> THEN <<>>
    ELSE IF Len(ps) = 1 THEN Head(ps)
    ELSE Head(ps) \o <<SP>> \o Join(Tail(ps))

RunTexts ==
    LET pieces == {<<"x", " ", "=", " ", "5", ";">>,
                   <<"y", " ", "=", " ", "x", ";">>,
                   RESET, INC}
    IN  {Join(ps) : ps \in SeqsUpTo(pieces, MaxRun)}

\* std::ifstream file("samples/hello.hl"); if (!file) return 1;
OpenFails ==
    /\ phase = "idle"
    /\ phase' = "noInput"
    /\ UNCHANGED <<program, tokens, current, statements, parseError, irOut,
                   asmOut>>
    /\ UNCHANGED <<macroVars, semVars, runVars>>

\* MacroExpander expander; expander.loadDefaults();
\* std::string expanded = expander.expand(buffer.str());
RunExpand(text) ==
    /\ phase = "idle"
    /\ macros' = loadDefaults(EmptyTable)
    /\ input' = text
    /\ expanded' = expand(loadDefaults(EmptyTable), text)
    /\ macroError' = NoMacroError
    /\ lastOp' = "expand"
    /\ phase' = "expanded"
    /\ UNCHANGED <<program, tokens, current, statements, parseError, irOut,
                   asmOut>>
    /\ UNCHANGED <<semVars, runVars>>

\* Lexer lexer(expanded); tokens = lexer.tokenize(); Parser parser(tokens);
RunTokenize ==
    /\ phase = "expanded"
    /\ tokens' = tokenizeChars(expanded)
    /\ current' = 0
    /\ statements' = <<>>
    /\ phase' = "parsing"
    /\ UNCHANGED <<program, parseError, irOut, asmOut>>
    /\ UNCHANGED <<macroVars, semVars, runVars>>

\* the phases in which main has ended
Ended == {"noInput", "parseFailed", "semFailed", "generated"}

\* the exit status of main: 0 from return 0, 1 from return 1, and the
\* abort of the process when the exception of parse() is caught by nothing
ExitStatus ==
    IF phase = "generated" THEN "0"
    ELSE IF phase \in {"noInput", "semFailed"} THEN "1"
    ELSE IF phase = "parseFailed" THEN "abort"
    ELSE "running"

\* main is started again: a new process, whose objects and file-scope flag
\* are new, and the output files as the run before left them
NewRun ==
    /\ phase \in Ended
    /\ prevRun' = [input |-> input, outcome |-> phase, ir |-> irOut,
                   asm |-> asmOut]
    /\ written' = {}
    /\ phase' = "idle"
    /\ program' = <<>> /\ tokens' = <<>> /\ current' = 0
    /\ statements' = <<>> /\ parseError' = "none"
    /\ macros' = EmptyTable /\ input' = <<>> /\ expanded' = <<>>
    /\ macroError' = NoMacroError /\ lastOp' = "init"
    /\ declared' = {} /\ inFunction' = FALSE
    /\ semState' = "idle" /\ semError' = NoError
    /\ UNCHANGED <<stack, lastStmt, earlier, topDecl, walked>>
    /\ UNCHANGED <<irOut, asmOut, runs>>

NextRun ==
    \/ OpenFails
    \/ \E text \in RunTexts : RunExpand(text)
    \/ RunTokenize
    \/ ParseStatement
    \/ ParseReturn
    \/ Analyze
    \/ EmitIR
    \/ GenerateNASM
    \/ NewRun

SpecRun == InitMain /\ [][NextRun]_vars

\* the stages main has completed when it is in a phase: macro expansion,
\* lexing, parsing, semantic analysis, IR emission, code generation
Rank == [idle |-> 0, expanded |-> 1, parsing |-> 2, parsed |-> 3,
         analyzed |-> 4, emitted |-> 5, generated |-> 6]

Failed == {"noInput", "parseFailed", "semFailed"}

\* a step to another phase completes the next stage, or ends the run in a
\* failure before any output stage has started, or starts the next run
StageStep ==
    phase' # phase =>
        \/ /\ phase \in DOMAIN Rank /\ phase' \in DOMAIN Rank
           /\ Rank[phase'] = Rank[phase] + 1
        \/ /\ phase' \in Failed
           /\ phase \in DOMAIN Rank /\ Rank[phase] <= 3
           /\ UNCHANGED <<irOut, asmOut, written>>
        \/ /\ phase' = "idle" /\ phase \in Ended

\* an output file is written only from the phase its stage starts in, and
\* only after an analysis that raised no error
OutputStep ==
    /\ ("ir" \in written' /\ "ir" \notin written)
          => phase = "analyzed" /\ semState = "done" /\ semError = NoError
    /\ ("asm" \in written' /\ "asm" \notin written)
          => phase = "emitted" /\ semState = "done" /\ semError = NoError

-----------------------------------------------------------------------------
(* Two runs in one process, their steps interleaved: each has its own       *)
(* SemanticAnalyzer, and so its own declared set; inFunction is the one     *)
(* file-scope flag.  A step is one turn of the analyzer loop.               *)

TwoStmts == {Assignment("x", NumberExpr("5")),
             FunctionDef("f", <<ReturnStatement>>),
             ReturnStatement}

\* analyzer.analyze(statements) is entered: declared.clear(), and the loop
\* stands before the first statement
Entered(stmts) ==
    [stmts |-> stmts, frames |-> <<stmts>>, declared |-> {},
     state |-> "running", error |-> NoError]

BeginTwo(s1, s2) ==
    /\ runs = <<>>
    /\ runs' = <<Entered(s1), Entered(s2)>>
    /\ UNCHANGED <<macroVars, semVars, mainVars, written, prevRun>>

\* one turn of the loop of run r, or the return of one of its analyze calls
TurnOf(r) ==
    /\ r \in DOMAIN runs
    /\ runs[r].state = "running"
    /\ LET me    == runs[r]
           depth == Len(me.frames)
           top   == me.frames[depth]
           rest  == [me.frames EXCEPT ![depth] = Tail(top)]
       IN  IF top = <<>>
           THEN IF depth = 1
                THEN \* the outermost analyze returns
                     /\ runs' = [runs EXCEPT ![r].state = "done",
                                             ![r].frames = <<>>]
                     /\ UNCHANGED inFunction
                ELSE \* analyze(fn->body) returns; inFunction = false
                     /\ runs' = [runs EXCEPT
                                   ![r].frames = SubSeq(me.frames, 1, depth - 1)]
                     /\ inFunction' = FALSE
           ELSE LET st == Head(top)
                IN  IF st.kind = "assign"
                    THEN LET a == analyzeAssignment(me.declared, st)
                         IN  /\ runs' = [runs EXCEPT
                                   ![r].declared = a.declared,
                                   ![r].error = a.error,
                                   ![r].state = IF a.error = NoError
                                                THEN "running" ELSE "failed",
                                   ![r].frames = rest]
                             /\ UNCHANGED inFunction
                    ELSE IF st.kind = "func"
                    THEN \* inFunction = true; analyze(fn->body) is entered
                         /\ inFunction' = TRUE
                         /\ runs' = [runs EXCEPT
                                       ![r].declared = {},
                                       ![r].frames = Append(rest, st.body)]
                    ELSE IF st.kind = "return" /\ ~inFunction
                    THEN /\ runs' = [runs EXCEPT
                               ![r].error = [kind |-> "ReturnOutsideFunction",
                                             name |-> ""],
                               ![r].state = "failed",
                               ![r].frames = rest]
                         /\ UNCHANGED inFunction
                    ELSE /\ runs' = [runs EXCEPT ![r].frames = rest]
                         /\ UNCHANGED inFunction
    /\ UNCHANGED <<declared, stack, semState, semError, lastStmt, earlier,
                   topDecl, walked>>
    /\ UNCHANGED <<macroVars, mainVars, written, prevRun>>

NextTwo ==
    \/ \E s1 \in SeqsUpTo(TwoStmts, MaxTwo),
          s2 \in SeqsUpTo(TwoStmts, MaxTwo) : BeginTwo(s1, s2)
    \/ \E r \in 1..2 : TurnOf(r)

SpecTwo == InitMain /\ [][NextTwo]_vars

\* C23: two runs whose steps are interleaved behave as if each ran alone:
\* the verdict of the analysis of each run, and the declared set it ends
\* with, are those of analyze called on its statements with no other run
\* in the process.
C23_RunsDoNotInterfere ==
    \A r \in DOMAIN runs :
        runs[r].state \in {"done", "failed"} =>
            LET alone == analyze(FALSE, runs[r].stmts)
            IN  /\ runs[r].error = alone.error
                /\ runs[r].declared = alone.declared

====
